---- MODULE Spec2Model ----
(***************************************************************************)
(* afk: a terminal countdown / stopwatch (src/src/main.rs).                *)
(*                                                                         *)
(* Three threads: the input listener `events`, the tick generator          *)
(* `tick_timer`, and `main`, whose loop polls one mpsc channel.  Time is   *)
(* kept as clocks that advance in quanta: the time                         *)
(* since config.blink_timer, the time left of tick_timer's sleep.          *)
(* Strings the painter handles are sequences of one-character strings;     *)
(* the text format_time returns is a TLA+ string.                          *)
(***************************************************************************)
EXTENDS Integers, Sequences, FiniteSets, TLC

\* ------------------------------------------------------------ constants
BlinkRate == 500
TickMs == 1000
offset_y == 3
CaptionCol == 2

\* --------------------------------------------------------------- bounds
MaxInitial == 2
MaxTicks == 3
MaxQuits == 1
ScreenCols == 4
MaxLines == 2
FmtMax == 3700

\* The grain of time: the clocks count in steps of the blink rate.  The loop's
\* sleep is shorter than one step, so it may end within the step it began in.
Quantum == BlinkRate

VARIABLES
    allow_negative,   \* config.allow_negative
    show_zeroes,      \* config.show_zeroes
    words,            \* config.words, the caption
    initial_seconds,  \* total_seconds as computed at line 261
    total_seconds,    \* main's total_seconds
    is_blinking,      \* config.is_blinking
    blink_elapsed,    \* config.blink_timer.elapsed(), saturated at BlinkRate
    old_lines,        \* main's old_lines
    text,             \* the iteration's text
    buf,              \* the iteration's buf
    chan,             \* the mpsc channel, oldest event first
    rx_alive,         \* the receiver rx has not been dropped
    send_failed,      \* a send has returned Err (receiver gone)
    pc,               \* main's position
    result,           \* what main returned
    cleanups,         \* calls of figglebit::cleanup
    queued,           \* commands queued on stdout and not yet flushed
    screen,           \* the terminal's cells
    cursor,           \* the terminal's cursor, <<col, row>>
    erase_ops,        \* the erase pass of this iteration's paint, until the poll
    write_ops,        \* the write pass of this iteration's paint, until the poll
    tick_wait,        \* time left of tick_timer's sleep
    zero_elapsed,     \* time since total_seconds reached 0, saturated
    ticks_sent,       \* Ticks tick_timer has sent
    quits_sent        \* Quits events has sent

cfgVars == <<allow_negative, show_zeroes, words, initial_seconds>>
blinkVars == <<is_blinking, blink_elapsed>>
termVars == <<queued, screen, cursor, erase_ops, write_ops>>
vars == <<allow_negative, show_zeroes, words, initial_seconds, total_seconds,
          is_blinking, blink_elapsed, old_lines, text, buf, chan, rx_alive,
          send_failed, pc, result, cleanups, queued, screen, cursor,
          erase_ops, write_ops, tick_wait, zero_elapsed,
          ticks_sent, quits_sent>>

Min(a, b) == IF a < b THEN a ELSE b
Max(a, b) == IF a > b THEN a ELSE b

\* ---------------------------------------------------------- format_time
Digit(d) ==
    CASE d = 0 -> "0" [] d = 1 -> "1" [] d = 2 -> "2" [] d = 3 -> "3"
      [] d = 4 -> "4" [] d = 5 -> "5" [] d = 6 -> "6" [] d = 7 -> "7"
      [] d = 8 -> "8" [] d = 9 -> "9"

\* Display of an i128: a "-" before the digits of a negative number.
RECURSIVE ToDec(_)
ToDec(n) ==
    IF n < 0 THEN "-" \o ToDec(0 - n)
    ELSE IF n < 10 THEN Digit(n)
    ELSE ToDec(n \div 10) \o Digit(n % 10)

\* {:0>2}: right-aligned in a field of at least 2, filled with "0"
Pad2(n) == IF Len(ToDec(n)) < 2 THEN "0" \o ToDec(n) ELSE ToDec(n)

\* A variant of FmtMinutes: the hours are not taken off the minutes.
FmtMinutesOfTotal(t) == t \div 60

\* lines 52-54
FmtHours(t) == (t \div 60) \div 60
FmtMinutes(t) == t \div 60 - FmtHours(t) * 60
FmtSeconds(t) == t - FmtMinutes(t) * 60 - FmtHours(t) * 60 * 60

format_time(total_sec, show) ==
    LET is_less_than_zero == total_sec < 0
        t == IF is_less_than_zero THEN total_sec * (-1) ELSE total_sec
        hours == FmtHours(t)
        minutes == FmtMinutes(t)
        seconds == FmtSeconds(t)
    IN  (IF is_less_than_zero THEN "-" ELSE "")
        \o (IF hours = 0 /\ ~show THEN "" ELSE Pad2(hours) \o ":")
        \o (IF hours = 0 /\ minutes = 0 /\ ~show THEN "" ELSE Pad2(minutes) \o ":")
        \o Pad2(seconds)

\* ------------------------------------------------------------- renderer
NL == "\n"
BadByte == "0xFF"

\* What Renderer::render may leave in buf: the renderer is an external crate.
RenderOutputs ==
    { <<"X", NL>>,
      <<"A", "A", "A", NL, "B", NL>>,
      <<NL, "B", "B">>,
      <<"A", BadByte, NL>> }

from_utf8_ok(bytes) == \A i \in DOMAIN bytes : bytes[i] # BadByte

\* str::lines: split at "\n"; a final line needs no terminator.
RECURSIVE SplitLines(_, _)
SplitLines(bytes, cur) ==
    IF bytes = <<>> THEN (IF cur = <<>> THEN <<>> ELSE <<cur>>)
    ELSE IF Head(bytes) = NL THEN <<cur>> \o SplitLines(Tail(bytes), <<>>)
    ELSE SplitLines(Tail(bytes), Append(cur, Head(bytes)))

Lines(bytes) == SplitLines(bytes, <<>>)

\* ------------------------------------------------------------- terminal
ScreenRows == offset_y + MaxLines
Rows == 0 .. (ScreenRows - 1)
Blank == " "
BlankRow == [j \in 1 .. ScreenCols |-> Blank]
BlankScreen == [r \in Rows |-> BlankRow]

MoveTo(col, row) == [cmd |-> "MoveTo", col |-> col, row |-> row]
PrintOf(s) == [cmd |-> "Print", s |-> s]

Spaces(n) == [j \in 1 .. n |-> Blank]

\* One queued command acting on the screen scr with the cursor at col, row.
ExecAt(scr, col, row, c) ==
    IF c.cmd = "MoveTo" THEN <<scr, <<c.col, c.row>>>>
    ELSE <<IF row \in Rows
             THEN [scr EXCEPT ![row] =
                    [j \in 1 .. ScreenCols |->
                       IF j > col /\ j <= col + Len(c.s)
                       THEN c.s[j - col] ELSE @[j]]]
             ELSE scr,
           <<col + Len(c.s), row>>>>

\* One queued command acting on the terminal <<screen, cursor>>.
Exec(term, c) ==
    CHOOSE after \in {ExecAt(t[1], t[2][1], t[2][2], c) : t \in {term}} : TRUE

RECURSIVE ExecAll(_, _)
ExecAll(term, cmds) ==
    IF cmds = <<>> THEN term ELSE ExecAll(Exec(term, Head(cmds)), Tail(cmds))

\* ---------------------------------------------------------- the painter
\* Variants of the painter's passes: no erase pass; a write pass one row low.
EraseCmdsNone(old) == <<>>

RECURSIVE EraseFrom(_, _)
EraseFrom(lines, i) ==
    IF lines = <<>> THEN <<>>
    ELSE <<MoveTo(0, offset_y + i), PrintOf(Spaces(Len(Head(lines))))>>
         \o EraseFrom(Tail(lines), i + 1)

EraseCmdsRowAbove(old) == EraseFrom(old, -1)
EraseCmdsFirstOnly(old) == IF old = <<>> THEN <<>> ELSE EraseFrom(<<Head(old)>>, 0)

\* lines 291-295
EraseCmds(old) == EraseFrom(old, 0)

RECURSIVE WriteFrom(_, _)
WriteFrom(lines, i) ==
    IF lines = <<>> THEN <<>>
    ELSE <<MoveTo(0, offset_y + i), PrintOf(Head(lines))>>
         \o WriteFrom(Tail(lines), i + 1)

WriteCmdsRowBelow(lines) == WriteFrom(lines, 1)

\* lines 297-300
WriteCmds(lines) == WriteFrom(lines, 0)

\* A variant of CaptionCmds: the caption on the first row of the numerals.
CaptionCmdsAtOrigin(w) == <<MoveTo(CaptionCol, offset_y), PrintOf(w)>>

\* lines 271-272
CaptionCmds(w) == <<MoveTo(CaptionCol, offset_y - 1), PrintOf(w)>>

\* ------------------------------------------------------ countdown state
\* Variants of the definitions below, each a slip the code could have made;
\* the properties are checked to tell them from the code.
TickStepAlways(ts, an) == ts - 1
TickStepNeverNegative(ts, an) == IF ts > 0 THEN ts - 1 ELSE ts
BlinkEvaluatedAtZero(ts, an) == ts = 0
BlinkDueStrict(elapsed) == elapsed > BlinkRate

\* lines 309-311: what a consumed Tick makes of total_seconds
TickStep(ts, an) == IF ts > 0 \/ an THEN ts - 1 ELSE ts

\* line 279: whether the iteration calls flip_blinker
BlinkEvaluated(ts, an) == ts = 0 /\ ~an

\* line 97
BlinkDue(elapsed) == elapsed >= BlinkRate

\* ----------------------------------------------------------------- Init
Captions == { <<"h", "i">> }
InitialTotals == (-1) .. MaxInitial

Init ==
    /\ allow_negative \in BOOLEAN
    /\ show_zeroes \in BOOLEAN
    /\ words \in Captions
    /\ initial_seconds \in InitialTotals
    /\ total_seconds = initial_seconds
    /\ is_blinking = FALSE
    /\ blink_elapsed = 0
    /\ old_lines = <<>>
    /\ text = ""
    /\ buf = <<>>
    /\ chan = <<>>
    /\ rx_alive = TRUE
    /\ send_failed = FALSE
    /\ pc = "blink"
    /\ result = "none"
    /\ cleanups = 0
    /\ queued = CaptionCmds(words)
    /\ screen = BlankScreen
    /\ cursor = <<0, 0>>
    /\ erase_ops = <<>>
    /\ write_ops = <<>>
    /\ tick_wait = TickMs
    /\ zero_elapsed = 0
    /\ ticks_sent = 0
    /\ quits_sent = 0

\* -------------------------------------------------------------- producers
\* The key events event::read returns: a key code and its modifiers.
KeyCodes == {"Esc", "c", "x"}
KeyModifiers == {"NONE", "CONTROL"}
Keys == [code : KeyCodes, modifiers : KeyModifiers]

\* A variant of Send: the event is queued even when the receiver is gone.
SendAlways(ev) == chan' = Append(chan, ev) /\ UNCHANGED send_failed

\* tx.send: the event is appended while the receiver lives, else the send fails.
Send(ev) ==
    IF rx_alive
    THEN chan' = Append(chan, ev) /\ UNCHANGED send_failed
    ELSE send_failed' = TRUE /\ UNCHANGED chan

\* A variant of IsQuitKey: a plain c quits too.
IsQuitKeyAnyC(key) == key.code = "Esc" \/ key.code = "c"

\* The arms of the match that send Quit: Esc with any modifiers, and c with
\* exactly CONTROL.
IsQuitKey(key) ==
    \/ key.code = "Esc"
    \/ key.code = "c" /\ key.modifiers = "CONTROL"

\* The input listener: one event::read and its match.
events(key) ==
    /\ IF IsQuitKey(key)
       THEN /\ rx_alive => quits_sent < MaxQuits
            /\ Send("Quit")
            /\ quits_sent' = IF rx_alive THEN quits_sent + 1 ELSE quits_sent
       ELSE UNCHANGED <<chan, send_failed, quits_sent>>
    /\ UNCHANGED <<cfgVars, total_seconds, blinkVars, old_lines, text, buf,
                   rx_alive, pc, result, cleanups, termVars, tick_wait, zero_elapsed, ticks_sent>>

\* The tick generator: its one-second sleep is over, it sends and sleeps again.
tick_timer ==
    /\ tick_wait = 0
    /\ rx_alive => ticks_sent < MaxTicks
    /\ Send("Tick")
    /\ ticks_sent' = IF rx_alive THEN ticks_sent + 1 ELSE ticks_sent
    /\ tick_wait' = TickMs
    /\ UNCHANGED <<cfgVars, total_seconds, blinkVars, old_lines, text, buf,
                   rx_alive, pc, result, cleanups, termVars,
                   zero_elapsed, quits_sent>>

\* Time passes: every clock moves by one quantum.
Advance ==
    /\ blink_elapsed' = Min(blink_elapsed + Quantum, BlinkRate)
    /\ tick_wait' = Max(tick_wait - Quantum, 0)
    /\ zero_elapsed' = IF BlinkEvaluated(total_seconds, allow_negative)
                       THEN Min(zero_elapsed + Quantum, BlinkRate)
                       ELSE zero_elapsed
    /\ \/ blink_elapsed' # blink_elapsed
       \/ tick_wait' # tick_wait
       \/ zero_elapsed' # zero_elapsed
    /\ UNCHANGED <<cfgVars, total_seconds, is_blinking, old_lines, text, buf,
                   chan, rx_alive, send_failed, pc, result, cleanups,
                   termVars, ticks_sent, quits_sent>>

\* ------------------------------------------------------------ main's loop
\* AfkConfig::flip_blinker
flip_blinker ==
    IF BlinkDue(blink_elapsed)
    THEN is_blinking' = ~is_blinking /\ blink_elapsed' = 0
    ELSE UNCHANGED <<is_blinking, blink_elapsed>>

\* lines 279-281
BlinkCheck ==
    /\ pc = "blink"
    /\ IF BlinkEvaluated(total_seconds, allow_negative)
       THEN flip_blinker
       ELSE UNCHANGED <<is_blinking, blink_elapsed>>
    /\ pc' = "render"
    /\ UNCHANGED <<cfgVars, total_seconds, old_lines, text, buf, chan,
                   rx_alive, send_failed, result, cleanups, termVars,
                   tick_wait, zero_elapsed, ticks_sent, quits_sent>>

\* main returns through `?`: cleanup is not reached; rx is dropped and with it
\* the events still in the channel; text and buf are dropped.
ReturnErr ==
    /\ pc' = "returned"
    /\ result' = "Err"
    /\ rx_alive' = FALSE
    /\ chan' = <<>>
    /\ text' = ""
    /\ buf' = <<>>

\* A variant of RenderSkip: the renderer is invoked in the suppressed phase too.
RenderSkipRenders ==
    /\ pc = "render"
    /\ is_blinking
    /\ text' = format_time(total_seconds, show_zeroes)
    /\ buf' = <<"X", NL>>
    /\ pc' = "paint"
    /\ UNCHANGED <<cfgVars, total_seconds, blinkVars, old_lines,
                   chan, rx_alive, send_failed, result, cleanups, termVars,
                   tick_wait, zero_elapsed, ticks_sent, quits_sent>>

\* lines 283-286, the phase suppressed: nothing is rendered
RenderSkip ==
    /\ pc = "render"
    /\ is_blinking
    /\ pc' = "paint"
    /\ UNCHANGED <<cfgVars, total_seconds, blinkVars, old_lines, text, buf,
                   chan, rx_alive, send_failed, result, cleanups, termVars,
                   tick_wait, zero_elapsed, ticks_sent, quits_sent>>

\* lines 283-286, render returns Ok having written `out` to buf
RenderOk(out) ==
    /\ pc = "render"
    /\ ~is_blinking
    /\ text' = format_time(total_seconds, show_zeroes)
    /\ buf' = out
    /\ pc' = "paint"
    /\ UNCHANGED <<cfgVars, total_seconds, blinkVars, old_lines, chan,
                   rx_alive, send_failed, result, cleanups, termVars,
                   tick_wait, zero_elapsed, ticks_sent, quits_sent>>

\* lines 283-286, render returns Err
RenderErr ==
    /\ pc = "render"
    /\ ~is_blinking
    /\ ReturnErr
    /\ UNCHANGED <<cfgVars, total_seconds, blinkVars, old_lines, send_failed,
                   cleanups, termVars, tick_wait, zero_elapsed, ticks_sent,
                   quits_sent>>

\* lines 288-304, every queue and the flush succeed
PaintOk ==
    /\ pc = "paint"
    /\ from_utf8_ok(buf)
    /\ LET lines == Lines(buf)
           erase == EraseCmds(old_lines)
           write == WriteCmds(lines)
           term == ExecAll(<<screen, cursor>>, queued \o erase \o write)
       IN  /\ erase_ops' = erase
           /\ write_ops' = write
           /\ old_lines' = lines
           /\ queued' = <<>>
           /\ screen' = term[1]
           /\ cursor' = term[2]
    /\ pc' = "poll"
    /\ UNCHANGED <<cfgVars, total_seconds, blinkVars, text, buf, chan,
                   rx_alive, send_failed, result, cleanups, tick_wait, zero_elapsed, ticks_sent, quits_sent>>

\* A variant of PaintSkip: the frame painted last is forgotten.
PaintSkipForgets ==
    /\ pc = "paint"
    /\ ~from_utf8_ok(buf)
    /\ pc' = "poll"
    /\ old_lines' = <<>>
    /\ UNCHANGED <<cfgVars, total_seconds, blinkVars, text, buf,
                   chan, rx_alive, send_failed, result, cleanups, termVars,
                   tick_wait, zero_elapsed, ticks_sent, quits_sent>>

\* line 288, from_utf8 returns Err: the body of the if is skipped
PaintSkip ==
    /\ pc = "paint"
    /\ ~from_utf8_ok(buf)
    /\ pc' = "poll"
    /\ UNCHANGED <<cfgVars, total_seconds, blinkVars, old_lines, text, buf,
                   chan, rx_alive, send_failed, result, cleanups, termVars,
                   tick_wait, zero_elapsed, ticks_sent, quits_sent>>

\* lines 288-304, a queue or the flush returns Err: nothing more reaches the
\* terminal, main's locals are gone
PaintFail ==
    /\ pc = "paint"
    /\ from_utf8_ok(buf)
    /\ ReturnErr
    /\ UNCHANGED <<cfgVars, total_seconds, blinkVars, old_lines, send_failed,
                   cleanups, termVars, tick_wait, zero_elapsed, ticks_sent,
                   quits_sent>>

\* A variant of PollEmpty: a blocking recv, which waits for an event.
PollEmptyBlocks ==
    /\ pc = "poll"
    /\ chan = <<>>
    /\ FALSE
    /\ UNCHANGED vars

\* line 306, try_recv returns Err(Empty); line 317 is next
PollEmpty ==
    /\ pc = "poll"
    /\ chan = <<>>
    /\ pc' = "sleep"
    /\ erase_ops' = <<>>
    /\ write_ops' = <<>>
    /\ UNCHANGED <<cfgVars, total_seconds, blinkVars, old_lines, text, buf,
                   chan, rx_alive, send_failed, result, cleanups, queued,
                   screen, cursor, tick_wait, zero_elapsed, ticks_sent,
                   quits_sent>>

\* A variant of PollTick: one poll takes every pending event for one Tick.
PollTickDrain ==
    /\ pc = "poll"
    /\ chan # <<>>
    /\ Head(chan) = "Tick"
    /\ chan' = <<>>
    /\ total_seconds' = TickStep(total_seconds, allow_negative)
    /\ zero_elapsed' = IF total_seconds' # total_seconds THEN 0 ELSE zero_elapsed
    /\ pc' = "sleep"
    /\ erase_ops' = <<>>
    /\ write_ops' = <<>>
    /\ UNCHANGED <<cfgVars, blinkVars, old_lines, text, buf, rx_alive,
                   send_failed, result, cleanups, queued, screen, cursor,
                   tick_wait, ticks_sent, quits_sent>>

\* lines 306-312, try_recv returns Tick; line 317 is next
PollTick ==
    /\ pc = "poll"
    /\ chan # <<>>
    /\ Head(chan) = "Tick"
    /\ chan' = Tail(chan)
    /\ total_seconds' = TickStep(total_seconds, allow_negative)
    /\ zero_elapsed' = IF total_seconds' # total_seconds THEN 0 ELSE zero_elapsed
    /\ pc' = "sleep"
    /\ erase_ops' = <<>>
    /\ write_ops' = <<>>
    /\ UNCHANGED <<cfgVars, blinkVars, old_lines, text, buf, rx_alive,
                   send_failed, result, cleanups, queued, screen, cursor,
                   tick_wait, ticks_sent, quits_sent>>

\* lines 306-313, try_recv returns Quit: break
PollQuit ==
    /\ pc = "poll"
    /\ chan # <<>>
    /\ Head(chan) = "Quit"
    /\ chan' = Tail(chan)
    /\ pc' = "cleanup"
    /\ erase_ops' = <<>>
    /\ write_ops' = <<>>
    /\ UNCHANGED <<cfgVars, total_seconds, blinkVars, old_lines, text, buf,
                   rx_alive, send_failed, result, cleanups, queued, screen,
                   cursor, tick_wait, zero_elapsed, ticks_sent, quits_sent>>

\* line 317 returns; lines 276-277 of the next iteration
Sleep ==
    /\ pc = "sleep"
    /\ text' = ""
    /\ buf' = <<>>
    /\ pc' = "blink"
    /\ UNCHANGED <<cfgVars, total_seconds, blinkVars, old_lines, chan,
                   rx_alive, send_failed, result, cleanups, termVars,
                   tick_wait, zero_elapsed, ticks_sent, quits_sent>>

\* lines 320-322
Cleanup ==
    /\ pc = "cleanup"
    /\ cleanups' = cleanups + 1
    /\ pc' = "returned"
    /\ result' = "Ok"
    /\ rx_alive' = FALSE
    /\ chan' = <<>>
    /\ text' = ""
    /\ buf' = <<>>
    /\ UNCHANGED <<cfgVars, total_seconds, blinkVars, old_lines, send_failed,
                   termVars, tick_wait, zero_elapsed, ticks_sent, quits_sent>>

Next ==
    \/ \E key \in Keys : events(key)
    \/ tick_timer
    \/ Advance
    \/ BlinkCheck
    \/ RenderSkip
    \/ \E out \in RenderOutputs : RenderOk(out)
    \/ RenderErr
    \/ PaintOk
    \/ PaintSkip
    \/ PaintFail
    \/ PollEmpty
    \/ PollTick
    \/ PollQuit
    \/ Sleep
    \/ Cleanup

Spec == Init /\ [][Next]_vars

\* A step of main.
MainStep ==
    \/ BlinkCheck
    \/ RenderSkip
    \/ \E out \in RenderOutputs : RenderOk(out)
    \/ RenderErr
    \/ PaintOk
    \/ PaintSkip
    \/ PaintFail
    \/ PollEmpty
    \/ PollTick
    \/ PollQuit
    \/ Sleep
    \/ Cleanup

\* The main thread is scheduled: while it has a step to take it takes one.
\* Nothing is asked of the producers, which may stay silent for ever.
\* The runs of a countdown from 1 without the negative option.
LoopInit ==
    /\ Init
    /\ initial_seconds = 1
    /\ ~allow_negative
    /\ show_zeroes

\* main is a running thread: a step it can take is eventually taken. The
\* producers may stop sending at any point.
FairSpec == LoopInit /\ [][Next]_vars /\ WF_vars(MainStep)

\* ---------------------------------------------- format_time on its own
\* The loop's first render for every total of a range and some large ones,
\* in stopwatch mode, with the producers silent.
FmtLarge == {35999, 36000, 86399, 359999, 360000, 363661}
FmtInputs == ((-FmtMax) .. FmtMax) \cup FmtLarge \cup {(-1) * v : v \in FmtLarge}

FmtInit ==
    /\ allow_negative = TRUE
    /\ show_zeroes \in BOOLEAN
    /\ words \in Captions
    /\ initial_seconds \in FmtInputs
    /\ total_seconds = initial_seconds
    /\ is_blinking = FALSE
    /\ blink_elapsed = 0
    /\ old_lines = <<>>
    /\ text = ""
    /\ buf = <<>>
    /\ chan = <<>>
    /\ rx_alive = TRUE
    /\ send_failed = FALSE
    /\ pc = "blink"
    /\ result = "none"
    /\ cleanups = 0
    /\ queued = CaptionCmds(words)
    /\ screen = BlankScreen
    /\ cursor = <<0, 0>>
    /\ erase_ops = <<>>
    /\ write_ops = <<>>
    /\ tick_wait = TickMs
    /\ zero_elapsed = 0
    /\ ticks_sent = 0
    /\ quits_sent = 0

FmtNext ==
    \/ BlinkCheck
    \/ \E out \in {<<"X", NL>>} : RenderOk(out)

FmtSpec == FmtInit /\ [][FmtNext]_vars

\* ------------------------------------------------------------ properties
TicksInChan == Cardinality({i \in DOMAIN chan : chan[i] = "Tick"})

\* Ticks the loop has consumed, while the receiver lives.
TicksConsumed == ticks_sent - TicksInChan

\* This step consumes a Tick from the channel.
ConsumesTick ==
    /\ pc = "poll"
    /\ chan # <<>>
    /\ Head(chan) = "Tick"
    /\ chan' = Tail(chan)

\* This step consumes a Quit from the channel.
ConsumesQuit ==
    /\ pc = "poll"
    /\ chan # <<>>
    /\ Head(chan) = "Quit"
    /\ chan' = Tail(chan)

\* C1: with allow_negative false and an initial total >= 0, total_seconds is
\* >= 0 in every reachable state, and once it is 0 every further step, a
\* consumed Tick included, leaves it at 0.
C1_NeverBelowZero ==
    /\ []((~allow_negative /\ initial_seconds >= 0) => total_seconds >= 0)
    /\ [][(~allow_negative /\ total_seconds = 0) => total_seconds' = 0]_vars

\* C1 witness: initial 2, three Ticks consumed, the third at 0; the total is 0.
C1_Witness ==
    /\ rx_alive
    /\ ~allow_negative
    /\ initial_seconds = 2
    /\ TicksConsumed = 3
    /\ total_seconds = 0

\* C6: total_seconds changes only in a step that consumes a Tick, and then by
\* exactly -1; with allow_negative every consumed Tick decrements it; the
\* blink check, rendering, painting and consuming Quit leave it unchanged.
C6_OnlyTicksDecrement ==
    /\ [][total_seconds' # total_seconds =>
             (ConsumesTick /\ total_seconds' = total_seconds - 1)]_vars
    /\ [][(ConsumesTick /\ allow_negative) =>
             total_seconds' = total_seconds - 1]_vars
    /\ [][(ConsumesQuit \/ pc \in {"blink", "render", "paint"}) =>
             total_seconds' = total_seconds]_vars

\* C6 witness: initial 0 with allow_negative, three Ticks consumed: -3.
C6_Witness ==
    /\ rx_alive
    /\ allow_negative
    /\ initial_seconds = 0
    /\ TicksConsumed = 3
    /\ total_seconds = -3

\* C8: is_blinking implies total_seconds = 0 and allow_negative false; in a
\* step taken with allow_negative true or total_seconds # 0 the phase is not
\* flipped, and the render step of such an iteration renders the numeral.
C8_BlinkOnlyAtZero ==
    /\ [](is_blinking => (total_seconds = 0 /\ ~allow_negative))
    /\ [][(allow_negative \/ total_seconds # 0) =>
             is_blinking' = is_blinking]_vars
    /\ [][(pc = "render" /\ pc' = "paint"
             /\ (allow_negative \/ total_seconds # 0)) =>
             (text' = format_time(total_seconds, show_zeroes)
              /\ buf' \in RenderOutputs)]_vars

\* C8 witness: the phase is suppressed, at 0 with allow_negative false, after
\* the countdown ran down from 1.
C8_Witness ==
    /\ is_blinking
    /\ total_seconds = 0
    /\ ~allow_negative
    /\ initial_seconds = 1

\* C2: once a Quit has been sent into the channel, main ends with cleanup run
\* exactly once: whenever main has returned after such a Quit, cleanup has
\* run once.
C2_QuitEndsWithOneCleanup ==
    (pc = "returned" /\ quits_sent >= 1) => cleanups = 1

\* C3: cleanup has run on every path by which main has left the loop.
C3_CleanupOnEveryExit ==
    pc = "returned" => cleanups >= 1

\* C4: a renderer failure never ends the loop: from the render step main goes
\* on to the paint step, and a paint step whose buf is not UTF-8 goes on to
\* the poll with the screen and old_lines as they were.
C4_RendererFailureKeepsRunning ==
    /\ [][pc = "render" => pc' \in {"render", "paint"}]_vars
    /\ [][(pc = "paint" /\ ~from_utf8_ok(buf)) =>
             (pc' \in {"paint", "poll"}
              /\ screen' = screen /\ old_lines' = old_lines)]_vars

\* A line as a screen row shows it: from column 0, blank to the right.
PadRow(line) ==
    [j \in 1 .. ScreenCols |-> IF j <= Len(line) THEN line[j] ELSE Blank]

\* Rows offset_y and below show exactly `lines`, and nothing else.
ShowsFrame(scr, lines) ==
    \A r \in Rows :
        r >= offset_y =>
            scr[r] = IF r - offset_y < Len(lines)
                     THEN PadRow(lines[r - offset_y + 1])
                     ELSE BlankRow

OnlyMovesAndPrints(cmds) ==
    \A i \in DOMAIN cmds : cmds[i].cmd \in {"MoveTo", "Print"}

\* C5: after every successful paint, whatever frames were painted before, the
\* rows at and below offset_y show exactly the lines of the current frame from
\* column 0, with no cell left over from an earlier frame; the paint is made
\* of cursor moves and prints only, no clear of the screen.
C5_ScreenShowsCurrentFrame ==
    (pc = "poll" /\ from_utf8_ok(buf)) =>
        (/\ ShowsFrame(screen, Lines(buf))
         /\ OnlyMovesAndPrints(erase_ops \o write_ops))

\* C5 witness: the one-line frame "X" painted over the taller and wider
\* frame "AAA", "B".
C5_Witness ==
    /\ pc = "poll"
    /\ Lines(buf) = << <<"X">> >>
    /\ erase_ops = EraseFrom(<< <<"A", "A", "A">>, <<"B">> >>, 0)
    /\ screen[offset_y] = PadRow(<<"X">>)
    /\ screen[offset_y + 1] = BlankRow

\* A step that flips the blink phase.
FlipStep == is_blinking' # is_blinking

\* C9, amended: while total_seconds = 0 and allow_negative is false, the blink
\* check of an iteration flips the phase exactly when the time since the
\* toggle timestamp is >= the blink rate, and a flip resets the timestamp;
\* the phase flips in no other step, the timestamp is reset by nothing but a
\* flip, and consuming a Tick never flips the phase.  The timestamp starts at
\* the program's start, not when 0 is reached.
C9_FlipsWhenDue ==
    /\ [][(pc = "blink" /\ pc' = "render"
             /\ total_seconds = 0 /\ ~allow_negative) =>
             (/\ FlipStep <=> blink_elapsed >= BlinkRate
              /\ FlipStep => blink_elapsed' = 0)]_vars
    /\ [][FlipStep =>
             (pc = "blink" /\ total_seconds = 0 /\ ~allow_negative)]_vars
    /\ [][blink_elapsed' < blink_elapsed => FlipStep]_vars
    /\ [][ConsumesTick => ~FlipStep]_vars

\* C9 witness: the countdown ran down from 1 and the phase has flipped before
\* a blink rate has passed since it reached 0.
C9_Witness ==
    /\ initial_seconds = 1
    /\ total_seconds = 0
    /\ ~allow_negative
    /\ is_blinking
    /\ zero_elapsed < BlinkRate

\* C9 as claimed: the above, and from the moment total_seconds reaches 0 the
\* phase does not flip before a blink rate has passed.
C9_AsClaimed ==
    /\ C9_FlipsWhenDue
    /\ [][FlipStep => zero_elapsed >= BlinkRate]_vars

\* The paint step of an iteration whose frame is the frame painted last.
RepaintsSameFrame ==
    /\ pc = "paint"
    /\ pc' = "poll"
    /\ from_utf8_ok(buf)
    /\ queued = <<>>
    /\ old_lines = Lines(buf)

\* C10 as claimed: painting the frame painted last issues no erase run of
\* non-zero length and leaves the screen as it was.
C10_AsClaimed ==
    [][RepaintsSameFrame =>
         (/\ \A i \in DOMAIN erase_ops' :
                erase_ops'[i].cmd = "Print" => Len(erase_ops'[i].s) = 0
          /\ screen' = screen)]_vars

\* C10, amended: painting the frame painted last issues, for every line of
\* it, one erase run as long as that line (zero only for an empty line), then
\* writes the same lines, and leaves the screen as it was.
C10_RepaintErasesAndRewrites ==
    [][RepaintsSameFrame =>
         (/\ Len(erase_ops') = 2 * Len(old_lines)
          /\ \A i \in 1 .. Len(old_lines) :
                /\ erase_ops'[2 * i - 1] = MoveTo(0, offset_y + i - 1)
                /\ erase_ops'[2 * i].cmd = "Print"
                /\ erase_ops'[2 * i].s = Spaces(Len(old_lines[i]))
          /\ Len(write_ops') = 2 * Len(old_lines)
          /\ \A i \in 1 .. Len(old_lines) :
                write_ops'[2 * i].s = old_lines[i]
          /\ old_lines' = old_lines
          /\ screen' = screen)]_vars

\* C10 witness: "AAA", "B" painted over itself: erase runs of 3 and of 1.
C10_Witness ==
    /\ pc = "poll"
    /\ old_lines = << <<"A", "A", "A">>, <<"B">> >>
    /\ erase_ops = EraseFrom(old_lines, 0)
    /\ write_ops = WriteFrom(old_lines, 0)
    /\ ShowsFrame(screen, old_lines)

Abs(n) == IF n < 0 THEN 0 - n ELSE n

\* A number in decimal, zero-padded to two digits.
TwoDigits(n) == IF n < 10 THEN "0" \o ToString(n) ELSE ToString(n)

\* The text C7 describes for a total and the zero-groups setting.
DescribedText(n, show) ==
    LET h == Abs(n) \div 3600
        m == (Abs(n) \div 60) % 60
        sec == Abs(n) % 60
    IN  (IF n < 0 THEN "-" ELSE "")
        \o (IF h = 0 /\ ~show THEN "" ELSE TwoDigits(h) \o ":")
        \o (IF h = 0 /\ m = 0 /\ ~show THEN "" ELSE TwoDigits(m) \o ":")
        \o TwoDigits(sec)

\* C7: for every total of the range and both settings, the text format_time
\* returned is "-" iff negative, the hours group unless hours are 0 and the
\* zero groups are hidden, the minutes group unless hours and minutes are 0
\* and the zero groups are hidden, then the seconds on two digits; and the
\* four examples come out as stated.
C7_FormatTime ==
    /\ pc = "paint" => text = DescribedText(total_seconds, show_zeroes)
    /\ format_time(45, FALSE) = "45"
    /\ format_time(-75, FALSE) = "-01:15"
    /\ format_time(5, TRUE) = "00:00:05"
    /\ format_time(-3, TRUE) = "-00:00:03"

\* C7 witness: -75 with the zero groups hidden has been formatted.
C7_Witness ==
    /\ pc = "paint"
    /\ total_seconds = -75
    /\ ~show_zeroes
    /\ text = "-01:15"

\* C11: main never waits for an event: unless it has returned, it is again
\* and again at the top of an iteration and again and again at the poll,
\* whether or not a producer ever sends.
C11_LoopKeepsIterating ==
    /\ []<>(pc = "returned" \/ pc = "blink")
    /\ []<>(pc = "returned" \/ pc = "poll")

\* C11 witness: the channel is empty and no key was pressed, and main is at
\* the top of a further iteration, after the countdown ended and the blink
\* phase flipped.
C11_Witness ==
    /\ chan = <<>>
    /\ quits_sent = 0
    /\ pc = "blink"
    /\ total_seconds = 0
    /\ is_blinking

\* What main owns: its locals, the channel's receiving end and the terminal.
loopState ==
    <<total_seconds, is_blinking, old_lines, text, buf, chan, rx_alive, pc,
      result, cleanups, queued, screen, cursor>>

\* C12: once main has returned and dropped the receiver, both producers can
\* still take their next step (a quit key can be sent, a due Tick can be
\* sent), and no step, a failed send included, changes anything main owned.
C12_SendAfterExitIsDiscarded ==
    /\ [](~rx_alive => /\ \A key \in Keys : ENABLED events(key)
                       /\ tick_wait = 0 => ENABLED tick_timer)
    /\ [][~rx_alive => UNCHANGED loopState]_vars

\* C12 witness: a send has failed on the dropped receiver, and the tick
\* generator is in its next sleep.
C12_Witness ==
    /\ ~rx_alive
    /\ send_failed
    /\ tick_wait = TickMs
    /\ ticks_sent = MaxTicks

\* main's paint step of an iteration whose buf is not valid UTF-8.
PaintsInvalid ==
    /\ pc = "paint"
    /\ ~from_utf8_ok(buf)
    /\ pc' # pc

\* C13: the paint step of an iteration whose buf is not valid UTF-8 issues no
\* erase, no write and no flush (what is queued stays queued), leaves
\* old_lines, the screen and the cursor as they were and goes on to the poll;
\* and at all times the rows from offset_y down show old_lines, the frame the
\* next successful paint erases.
C13_InvalidTextSkipsPaint ==
    /\ [](ShowsFrame(screen, old_lines))
    /\ [][PaintsInvalid =>
            (/\ pc' = "poll"
             /\ erase_ops' = <<>>
             /\ write_ops' = <<>>
             /\ UNCHANGED <<old_lines, screen, cursor, queued>>)]_vars

\* C13 witness: after the frame "AAA", "B" was painted, an iteration's buf
\* was not valid UTF-8 and its paint was skipped; the frame is on screen.
C13_Witness ==
    /\ pc = "poll"
    /\ ~from_utf8_ok(buf)
    /\ old_lines = << <<"A", "A", "A">>, <<"B">> >>
    /\ screen[offset_y] = PadRow(<<"A", "A", "A">>)
    /\ screen[offset_y + 1] = PadRow(<<"B">>)
    /\ queued = <<>>

\* main's paint step of an iteration whose buf is valid UTF-8, every queue
\* and the flush succeeding.
PaintsValid ==
    /\ pc = "paint"
    /\ from_utf8_ok(buf)
    /\ pc' = "poll"

\* C14: a successful paint issues, for every index i of old_lines in order, a
\* move to (0, offset_y + i) and a run of exactly len(old_lines[i]) spaces,
\* and only then the lines of the new frame, in order; the terminal receives
\* what was queued, then the erases, then the writes; afterwards old_lines is
\* the new frame.  Before the first paint (the caption still queued)
\* old_lines is empty, so the first paint issues no erase.
C14_EraseThenWrite ==
    /\ [](queued # <<>> => old_lines = <<>>)
    /\ [][PaintsValid =>
            (/\ Len(erase_ops') = 2 * Len(old_lines)
             /\ \A i \in 1 .. Len(old_lines) :
                   /\ erase_ops'[2 * i - 1] = MoveTo(0, offset_y + i - 1)
                   /\ erase_ops'[2 * i] = PrintOf(Spaces(Len(old_lines[i])))
             /\ Len(write_ops') = 2 * Len(Lines(buf))
             /\ \A i \in 1 .. Len(Lines(buf)) :
                   write_ops'[2 * i] = PrintOf(Lines(buf)[i])
             /\ screen' = ExecAll(<<screen, cursor>>,
                                  queued \o erase_ops' \o write_ops')[1]
             /\ old_lines' = Lines(buf))]_vars

\* C14 witness: old_lines was "AAA", "B" and the new frame is "X": runs of 3
\* and 1 spaces on the first two rows of the block, then "X" on the first.
C14_Witness ==
    /\ pc = "poll"
    /\ erase_ops = <<MoveTo(0, offset_y), PrintOf(<<" ", " ", " ">>),
                     MoveTo(0, offset_y + 1), PrintOf(<<" ">>)>>
    /\ write_ops = <<MoveTo(0, offset_y), PrintOf(<<"X">>)>>
    /\ old_lines = << <<"X">> >>

\* A line with a character other than a space.
IsNonBlank(line) == \E j \in DOMAIN line : line[j] # Blank

NonBlankLines(lines) == SelectSeq(lines, IsNonBlank)

\* C15: after a successful paint, the write pass has written the non-blank
\* lines of the frame only, the k-th of them (from 0) at row offset_y + k.
C15_BlankLinesShiftUp ==
    (pc = "poll" /\ from_utf8_ok(buf)) =>
        write_ops = WriteFrom(NonBlankLines(Lines(buf)), 0)

\* C16: in an iteration with is_blinking true the renderer is not invoked
\* (text and buf stay empty), and after its paint nothing was written,
\* old_lines is empty and the rows from offset_y down are blank; in an
\* iteration with is_blinking false the renderer was given
\* format_time(total_seconds) and buf holds what it wrote, and after a
\* successful paint old_lines is that frame and the rows show it.
C16_BlinkSuppressesNumerals ==
    /\ (pc \in {"paint", "poll"} /\ is_blinking) => (text = "" /\ buf = <<>>)
    /\ (pc = "poll" /\ is_blinking) =>
          (/\ write_ops = <<>>
           /\ old_lines = <<>>
           /\ ShowsFrame(screen, <<>>))
    /\ (pc \in {"paint", "poll"} /\ ~is_blinking) =>
          (/\ text = format_time(total_seconds, show_zeroes)
           /\ buf \in RenderOutputs)
    /\ (pc = "poll" /\ ~is_blinking /\ from_utf8_ok(buf)) =>
          (/\ old_lines = Lines(buf)
           /\ ShowsFrame(screen, Lines(buf)))

\* C16 witness: the countdown is at 0 and the phase is suppressed; the paint
\* erased the block "AAA", "B" shown before and wrote nothing.
C16_Witness ==
    /\ pc = "poll"
    /\ is_blinking
    /\ total_seconds = 0
    /\ erase_ops = EraseFrom(<< <<"A", "A", "A">>, <<"B">> >>, 0)
    /\ write_ops = <<>>
    /\ screen[offset_y] = BlankRow

\* total_seconds after n Ticks were applied to the initial total.
AfterTicks(n) ==
    IF allow_negative THEN initial_seconds - n
    ELSE IF initial_seconds < 0 THEN initial_seconds
    ELSE Max(initial_seconds - n, 0)

\* C17: the channel changes in three ways only: a producer appends one event
\* at its end; main, at its poll, removes the event at its head, acts on that
\* very event (a Tick is applied, a Quit leads to cleanup) and leaves the
\* poll; or main returns and drops what is pending.  The poll is entered from
\* the paint only, so an iteration consumes at most one event.  While the
\* receiver lives, total_seconds is the initial total with every Tick that
\* was sent and is no longer pending applied exactly once.
C17_OneEventPerIterationInOrder ==
    /\ [](rx_alive => total_seconds = AfterTicks(TicksConsumed))
    /\ [][(pc' = "poll" /\ pc # "poll") => pc = "paint"]_vars
    /\ [][chan' # chan =>
            \/ /\ rx_alive
               /\ pc' = pc
               /\ \E ev \in {"Tick", "Quit"} : chan' = Append(chan, ev)
            \/ /\ pc = "poll"
               /\ chan # <<>>
               /\ chan' = Tail(chan)
               /\ Head(chan) = "Tick" =>
                     /\ pc' = "sleep"
                     /\ total_seconds' = TickStep(total_seconds, allow_negative)
               /\ Head(chan) = "Quit" =>
                     /\ pc' = "cleanup"
                     /\ total_seconds' = total_seconds
            \/ /\ pc' = "returned"
               /\ ~rx_alive'
               /\ chan' = <<>>]_vars

\* C17 witness: two Ticks and then a Quit were sent; the first Tick has been
\* applied in an earlier iteration, and main is at the poll with the second
\* Tick ahead of the Quit.
C17_Witness ==
    /\ pc = "poll"
    /\ chan = <<"Tick", "Quit">>
    /\ ticks_sent = 2
    /\ initial_seconds = 2
    /\ total_seconds = 1

\* The rows the i-th erase and the i-th write of a paint move to.
EraseRow(i) == erase_ops[2 * i - 1].row
WriteRow(i) == write_ops[2 * i - 1].row

\* The caption is one line of plain text; its count of non-blank lines, at
\* least 1.
CaptionLineCount == Max(Len(NonBlankLines(<<words>>)), 1)

\* The caption's row as the terminal shows it: the words from column
\* CaptionCol on.
CaptionRow ==
    [j \in 1 .. ScreenCols |->
        IF j > CaptionCol /\ j <= CaptionCol + Len(words)
        THEN words[j - CaptionCol] ELSE Blank]

\* C18 as claimed: the i-th line of every numeral erase and write goes to the
\* row CaptionLineCount + i (i from 0).
C18_AsClaimed ==
    pc = "poll" =>
        /\ \A i \in 1 .. (Len(erase_ops) \div 2) : EraseRow(i) = CaptionLineCount + i - 1
        /\ \A i \in 1 .. (Len(write_ops) \div 2) : WriteRow(i) = CaptionLineCount + i - 1

\* C18, amended: the caption is queued once, before the loop, as plain text
\* at column CaptionCol of row offset_y - 1, and is on that row once the
\* first paint has flushed it; the i-th line of every numeral erase and write
\* goes to column 0 of row offset_y + i (i from 0), offset_y being the constant
\* 3 whatever the caption: the numeral block starts on the row right below
\* the caption's.
C18_CaptionAboveFixedOrigin ==
    /\ queued \in {<<>>, <<MoveTo(CaptionCol, offset_y - 1), PrintOf(words)>>}
    /\ queued = <<>> => screen[offset_y - 1] = CaptionRow
    /\ queued # <<>> => screen = BlankScreen
    /\ pc = "poll" =>
          /\ \A i \in 1 .. (Len(erase_ops) \div 2) :
                erase_ops[2 * i - 1] = MoveTo(0, offset_y + i - 1)
          /\ \A i \in 1 .. (Len(write_ops) \div 2) :
                write_ops[2 * i - 1] = MoveTo(0, offset_y + i - 1)

\* C18 witness: the first paint has painted the caption and, on the two rows
\* below it, the frame "AAA", "B".
C18_Witness ==
    /\ pc = "poll"
    /\ erase_ops = <<>>
    /\ write_ops = WriteFrom(<< <<"A", "A", "A">>, <<"B">> >>, 0)
    /\ screen[offset_y - 1] = CaptionRow
    /\ screen[offset_y] = PadRow(<<"A", "A", "A">>)
    /\ old_lines = << <<"A", "A", "A">>, <<"B">> >>

\* Every print of cmds follows a move, and every move is to a row from
\* offset_y down.
BelowCaption(cmds) ==
    \A i \in DOMAIN cmds :
        IF i % 2 = 1
        THEN cmds[i].cmd = "MoveTo" /\ cmds[i].row >= offset_y
        ELSE cmds[i].cmd = "Print"

\* C19: every erase and every write of a paint moves to a row from offset_y
\* down before it prints; the rows above the caption's stay blank; once the
\* caption is on its row, every step (paints of frames of any height, the
\* empty frames of the blink included) leaves that row as it is; and nothing
\* is queued for the caption after the start: the queue only ever empties.
C19_CaptionRowUntouched ==
    /\ [](BelowCaption(erase_ops) /\ BelowCaption(write_ops))
    /\ [](\A r \in Rows : r < offset_y - 1 => screen[r] = BlankRow)
    /\ [][screen[offset_y - 1] = CaptionRow => screen'[offset_y - 1] = CaptionRow]_vars
    /\ [][queued' # queued => (pc = "paint" /\ queued' = <<>>)]_vars

\* C19 witness: the countdown blinks; a two-line frame was painted, erased by
\* the empty frame of the suppressed phase, and the caption is on its row.
C19_Witness ==
    /\ pc = "poll"
    /\ is_blinking
    /\ old_lines = <<>>
    /\ Len(erase_ops) = 4
    /\ screen[offset_y - 1] = CaptionRow
    /\ ShowsFrame(screen, <<>>)

\* The positions of main inside the loop.
Running == {"blink", "render", "paint", "poll", "sleep"}

\* The keys C20 names: Escape, and Control+C.
EscapeOrControlC(key) ==
    \/ key.code = "Esc"
    \/ key.code = "c" /\ key.modifiers = "CONTROL"

\* C20: the input listener's step for any key other than Escape and
\* Control+C sends nothing; main leaves the loop only by consuming a Quit at
\* its poll, or by returning Err from the render or the paint; consuming a
\* Tick, also at a total of 0, leads to the sleep and the next iteration.
C20_OnlyQuitEndsLoop ==
    /\ [][\A key \in Keys :
            (events(key) /\ ~EscapeOrControlC(key)) =>
                UNCHANGED <<chan, send_failed, quits_sent>>]_vars
    /\ [][(pc \in Running /\ pc' \notin Running) =>
            \/ ConsumesQuit /\ pc' = "cleanup"
            \/ pc \in {"render", "paint"} /\ pc' = "returned" /\ result' = "Err"]_vars
    /\ [][ConsumesTick => pc' = "sleep"]_vars

\* C20 witness: the countdown from 2 reached 0, one more Tick was consumed,
\* no Quit was ever sent, and main is at the top of a further iteration.
C20_Witness ==
    /\ pc = "blink"
    /\ initial_seconds = 2
    /\ total_seconds = 0
    /\ ticks_sent = 3
    /\ chan = <<>>
    /\ quits_sent = 0

TypeOK ==
    /\ pc \in {"blink", "render", "paint", "poll", "sleep", "cleanup", "returned"}
    /\ result \in {"none", "Ok", "Err"}
    /\ blink_elapsed \in 0 .. BlinkRate
    /\ tick_wait \in 0 .. TickMs
    /\ Len(old_lines) <= MaxLines

====
